---- MODULE Spec2Model ----
(***************************************************************************)
(* Model of src/src/App.tsx: the storiesReducer state machine and the App *)
(* component that drives it (search term, query url, fetch effect, sort   *)
(* and dismiss handlers).                                                  *)
(***************************************************************************)
EXTENDS Integers, Sequences, FiniteSets, TLC

VARIABLES
    stories,        \* App.tsx:133 reducer state {data, isLoading, isError, reverse}
    searchTerm,     \* App.tsx:124 value held by useSemiPersistentState
    url,            \* App.tsx:129 query target
    localStorage,   \* browser store, function from keys to strings
    mounted,        \* TRUE once the mount effects have run
    inflight,       \* urls of the axios.get calls not yet settled, in issue order
    last,           \* history: the action dispatched last
    pre,            \* history: reducer state before the last dispatch
    pairStart,      \* history: reducer state before two consecutive sorts by one field
    cause,          \* history: why the last failed request failed
    fetchCount,     \* history: number of axios.get calls of this session
    submitChanges,  \* history: number of submits that changed url
    lastRequest,    \* history: url of the latest axios.get and the term at its trigger
    prevSort,       \* history: field of the SORT right before the last SORT, else ""
    pending,        \* history: for each entry of inflight, its number and the data at its start
    event           \* history: the handler or step that ran last

vars == << stories, searchTerm, url, localStorage, mounted, inflight, last, pre,
           pairStart, cause, fetchCount, submitChanges, lastRequest,
           prevSort, pending, event >>

-----------------------------------------------------------------------------
(* Bounds *)

MaxHits == 2        \* longest payload a response delivers
MaxFetches == 2     \* requests issued per session

-----------------------------------------------------------------------------
(* Data *)

API_ENDPOINT == "https://hn.algolia.com/api/v1/search?query="

\* type Story
Story(id, link, t, a, c, p) ==
    [objectID |-> id, url |-> link, title |-> t, author |-> a,
     num_comments |-> c, points |-> p]

\* Stories the transport can deliver.  The first two are the articles of the
\* reducer scenarios; the third ties with them on author, points and
\* num_comments; the fourth repeats the identifier of the first.
StoryUniverse ==
    { Story("1", "u", "A", "X", 2, 5),
      Story("2", "u", "B", "Y", 1, 9),
      Story("3", "",  "C", "X", 1, 5),
      Story("1", "",  "D", "Z", 0, 7) }

\* type Stories, bounded
Payloads == UNION { [1..n -> StoryUniverse] : n \in 0..MaxHits }

\* Field names a SORT_STORIES action may carry: the Story properties that
\* order the universe and "topic", the filterField of the second button.
SortFields == {"author", "title", "num_comments", "points", "topic"}

\* Field names the three CustomButtons pass to onSort.
ButtonFields == {"author", "topic", "num_comments"}

\* Search texts the user can type.
Terms == {"", "React", "Redux"}

\* Failures of axios.get or of reading result.data.hits.
FailureCauses == {"network", "status", "body"}

\* UTF-16 code unit of the one-letter strings used for title and author.
CodeUnit == ("A" :> 65) @@ ("B" :> 66) @@ ("C" :> 67) @@ ("D" :> 68)
            @@ ("X" :> 88) @@ ("Y" :> 89) @@ ("Z" :> 90)

\* Story properties declared string (the others are number)
StringFields == {"objectID", "url", "title", "author"}

\* story[field] as a JS value: undefined when the story has no such property
Iteratee(story, field) ==
    IF field \notin DOMAIN story THEN [kind |-> "undefined", val |-> 0]
    ELSE IF field \in StringFields THEN [kind |-> "string", val |-> CodeUnit[story[field]]]
    ELSE [kind |-> "number", val |-> story[field]]

-----------------------------------------------------------------------------
(* lodash sortBy *)

\* lodash compareAscending: -1, 0 or 1; undefined sorts after defined values
compareAscending(value, other) ==
    IF value.kind = "undefined" /\ other.kind = "undefined" THEN 0
    ELSE IF value.kind = "undefined" THEN 1
    ELSE IF other.kind = "undefined" THEN -1
    ELSE IF value.val > other.val THEN 1
    ELSE IF value.val < other.val THEN -1
    ELSE 0

\* insert x behind every element that does not compare greater than x
RECURSIVE InsertSorted(_, _, _)
InsertSorted(sorted, x, field) ==
    IF sorted = << >> THEN << x >>
    ELSE IF compareAscending(Iteratee(Head(sorted), field), Iteratee(x, field)) > 0
         THEN << x >> \o sorted
         ELSE << Head(sorted) >> \o InsertSorted(Tail(sorted), x, field)

\* _.sortBy(collection, field): stable ascending sort (ties keep index order)
RECURSIVE sortBy(_, _)
sortBy(collection, field) ==
    IF collection = << >> THEN << >>
    ELSE InsertSorted(sortBy(SubSeq(collection, 1, Len(collection) - 1), field),
                      collection[Len(collection)], field)

\* Array.prototype.reverse
reverse(array) ==
    [i \in 1..Len(array) |-> array[Len(array) + 1 - i]]

-----------------------------------------------------------------------------
(* storiesReducer *)

\* the state useReducer starts with
InitialStories ==
    [data |-> << >>, isLoading |-> FALSE, isError |-> FALSE, reverse |-> FALSE]

FetchInitAction == [type |-> "STORIES_FETCH_INIT"]
FetchSuccessAction(payload) == [type |-> "STORIES_FETCH_SUCCESS", payload |-> payload]
FetchFailureAction == [type |-> "STORIES_FETCH_FAILURE"]
RemoveAction(story) == [type |-> "REMOVE_STORY", payload |-> story]
SortAction(field) == [type |-> "SORT_STORIES", payload |-> field]

\* STORIES_FETCH_INIT without isError: false
ReduceFetchInitKeepError(state) ==
    [state EXCEPT !.isLoading = TRUE]

\* case 'STORIES_FETCH_INIT'
ReduceFetchInit(state) ==
    [state EXCEPT !.isLoading = TRUE, !.isError = FALSE]

\* STORIES_FETCH_SUCCESS that also clears the reverse flag
ReduceFetchSuccessResetFlag(state, payload) ==
    [state EXCEPT !.isLoading = FALSE, !.isError = FALSE, !.data = payload,
                  !.reverse = FALSE]

\* STORIES_FETCH_SUCCESS without isLoading: false
ReduceFetchSuccessKeepLoading(state, payload) ==
    [state EXCEPT !.isError = FALSE, !.data = payload]

\* STORIES_FETCH_SUCCESS appending the payload to the data held
ReduceFetchSuccessMerge(state, payload) ==
    [state EXCEPT !.isLoading = FALSE, !.isError = FALSE,
                  !.data = state.data \o payload]

\* STORIES_FETCH_SUCCESS putting the payload in front of the data held
ReduceFetchSuccessPrepend(state, payload) ==
    [state EXCEPT !.isLoading = FALSE, !.isError = FALSE,
                  !.data = payload \o state.data]

\* case 'STORIES_FETCH_SUCCESS'
ReduceFetchSuccess(state, payload) ==
    [state EXCEPT !.isLoading = FALSE, !.isError = FALSE, !.data = payload]

\* STORIES_FETCH_FAILURE that also drops the data
ReduceFetchFailureClear(state) ==
    [state EXCEPT !.isLoading = FALSE, !.isError = TRUE, !.data = << >>]

\* STORIES_FETCH_FAILURE without isLoading: false
ReduceFetchFailureKeepLoading(state) ==
    [state EXCEPT !.isError = TRUE]

\* case 'STORIES_FETCH_FAILURE'
ReduceFetchFailure(state) ==
    [state EXCEPT !.isLoading = FALSE, !.isError = TRUE]

\* REMOVE_STORY comparing whole stories instead of objectIDs
ReduceRemoveSameStory(state, story) ==
    [state EXCEPT !.data = SelectSeq(state.data, LAMBDA s : story # s)]

\* case 'REMOVE_STORY'
ReduceRemove(state, story) ==
    [state EXCEPT !.data =
        SelectSeq(state.data, LAMBDA s : story.objectID # s.objectID)]

\* SORT_STORIES with the two branches exchanged
ReduceSortAscendingFirst(state, field) ==
    IF state.reverse
    THEN [state EXCEPT !.reverse = FALSE,
                       !.data = reverse(sortBy(state.data, field))]
    ELSE [state EXCEPT !.reverse = TRUE, !.data = sortBy(state.data, field)]

\* SORT_STORIES with reverseSet = true in both branches
ReduceSortKeepFlag(state, field) ==
    IF state.reverse
    THEN [state EXCEPT !.reverse = TRUE, !.data = sortBy(state.data, field)]
    ELSE [state EXCEPT !.reverse = TRUE,
                       !.data = reverse(sortBy(state.data, field))]

\* case 'SORT_STORIES'
ReduceSort(state, field) ==
    IF state.reverse
    THEN [state EXCEPT !.reverse = FALSE, !.data = sortBy(state.data, field)]
    ELSE [state EXCEPT !.reverse = TRUE,
                       !.data = reverse(sortBy(state.data, field))]

storiesReducer(state, action) ==
    CASE action.type = "STORIES_FETCH_INIT"    -> ReduceFetchInit(state)
      [] action.type = "STORIES_FETCH_SUCCESS" -> ReduceFetchSuccess(state, action.payload)
      [] action.type = "STORIES_FETCH_FAILURE" -> ReduceFetchFailure(state)
      [] action.type = "REMOVE_STORY"          -> ReduceRemove(state, action.payload)
      [] action.type = "SORT_STORIES"          -> ReduceSort(state, action.payload)

NoPair == [valid |-> FALSE, state |-> InitialStories]

\* dispatchStories(action): the reducer step, with the history of it
dispatchStories(action) ==
    /\ stories' = storiesReducer(stories, action)
    /\ last' = action
    /\ pre' = stories
    /\ pairStart' =
         IF /\ action.type = "SORT_STORIES"
            /\ last.type = "SORT_STORIES"
            /\ last.payload = action.payload
         THEN [valid |-> TRUE, state |-> pre]
         ELSE NoPair
    /\ prevSort' =
         IF action.type = "SORT_STORIES" /\ last.type = "SORT_STORIES"
         THEN last.payload
         ELSE ""

-----------------------------------------------------------------------------
(* The reducer on its own: any action dispatched in any state *)

NoRequest == [url |-> "", term |-> ""]

appVars == << searchTerm, url, localStorage, mounted, inflight,
              fetchCount, submitChanges, lastRequest >>

\* the step recorded in event: its name, the url or control it concerns and,
\* for a settled request, its number, the data at its start and whether data
\* was replaced, filtered or sorted since
Event(name, arg) ==
    [name |-> name, arg |-> arg, id |-> 0, began |-> << >>, touched |-> FALSE]

SettleEvent(name, target, request) ==
    [name |-> name, arg |-> target, id |-> request.id,
     began |-> request.began, touched |-> request.touched]

\* what the reducer on its own leaves alone
reducerFrame == << cause, appVars, pending, event >>

ReducerInit ==
    /\ stories = InitialStories
    /\ last = [type |-> "NONE"]
    /\ pre = InitialStories
    /\ pairStart = NoPair
    /\ cause = "none"
    /\ searchTerm = "React"
    /\ url = API_ENDPOINT \o "React"
    /\ localStorage = [k \in {} |-> ""]
    /\ mounted = FALSE
    /\ inflight = << >>
    /\ fetchCount = 0
    /\ submitChanges = 0
    /\ lastRequest = NoRequest
    /\ prevSort = ""
    /\ pending = << >>
    /\ event = Event("none", "")

DispatchFetchInit ==
    /\ dispatchStories(FetchInitAction)
    /\ UNCHANGED reducerFrame

DispatchFetchSuccess ==
    \E payload \in Payloads :
        /\ dispatchStories(FetchSuccessAction(payload))
        /\ UNCHANGED reducerFrame

DispatchFetchFailure ==
    /\ dispatchStories(FetchFailureAction)
    /\ UNCHANGED reducerFrame

DispatchRemove ==
    \E story \in StoryUniverse :
        /\ dispatchStories(RemoveAction(story))
        /\ UNCHANGED reducerFrame

DispatchSort ==
    \E field \in SortFields :
        /\ dispatchStories(SortAction(field))
        /\ UNCHANGED reducerFrame

ReducerNext ==
    \/ DispatchFetchInit
    \/ DispatchFetchSuccess
    \/ DispatchFetchFailure
    \/ DispatchRemove
    \/ DispatchSort

ReducerSpec == ReducerInit /\ [][ReducerNext]_vars

-----------------------------------------------------------------------------
(* The App component *)

\* Result collections (result.data.hits) the search API answers with: none,
\* the two articles of the reducer scenarios, two articles that tie on author
\* and points, and a body that repeats an identifier.
Hits ==
    { << >>,
      << Story("1", "u", "A", "X", 2, 5), Story("2", "u", "B", "Y", 1, 9) >>,
      << Story("3", "",  "C", "X", 1, 5), Story("1", "u", "A", "X", 2, 5) >>,
      << Story("1", "u", "A", "X", 2, 5), Story("1", "",  "D", "Z", 0, 7) >> }

NoItems == [k \in {} |-> ""]

\* localStorage.getItem(key) || initialState
getItemOr(store, key, initialState) ==
    IF key \in DOMAIN store /\ store[key] # "" THEN store[key] ELSE initialState

\* localStorage.setItem(key, value)
setItem(store, key, value) ==
    [k \in DOMAIN store \cup {key} |-> IF k = key THEN value ELSE store[k]]

\* the state of the first render, before its effects run
Render(store) ==
    /\ searchTerm = getItemOr(store, "search", "React")
    /\ url = API_ENDPOINT \o getItemOr(store, "search", "React")
    /\ stories = InitialStories
    /\ mounted = FALSE
    /\ inflight = << >>
    /\ last = [type |-> "NONE"]
    /\ pre = InitialStories
    /\ pairStart = NoPair
    /\ cause = "none"
    /\ fetchCount = 0
    /\ submitChanges = 0
    /\ lastRequest = NoRequest
    /\ prevSort = ""
    /\ pending = << >>
    /\ event = Event("none", "")

Init ==
    /\ localStorage = NoItems
    /\ Render(localStorage)

\* handleFetchStories that requests the url of the previous render
handleFetchStoriesStale(target) ==
    /\ dispatchStories(FetchInitAction)
    /\ cause' = "none"
    /\ inflight' = Append(inflight, url)
    /\ pending' = Append(pending, [id |-> fetchCount + 1, began |-> stories.data,
                                   touched |-> FALSE])
    /\ fetchCount' = fetchCount + 1
    /\ lastRequest' = [url |-> url, term |-> searchTerm]

\* handleFetchStories up to the await: STORIES_FETCH_INIT and axios.get(target)
handleFetchStories(target) ==
    /\ dispatchStories(FetchInitAction)
    /\ cause' = "none"
    /\ inflight' = Append(inflight, target)
    /\ pending' = Append(pending, [id |-> fetchCount + 1, began |-> stories.data,
                                   touched |-> FALSE])
    /\ fetchCount' = fetchCount + 1
    /\ lastRequest' = [url |-> target, term |-> searchTerm]

\* the effects of the first commit: persist the term, fetch the url
Mount ==
    /\ ~mounted
    /\ mounted' = TRUE
    /\ localStorage' = setItem(localStorage, "search", searchTerm)
    /\ handleFetchStories(url)
    /\ event' = Event("mount", url)
    /\ UNCHANGED << searchTerm, url, submitChanges >>

\* handleSearchInput: setSearchTerm, then the effect that persists the term
SearchInput ==
    \E text \in Terms :
        /\ mounted
        /\ text # searchTerm
        /\ searchTerm' = text
        /\ localStorage' = setItem(localStorage, "search", text)
        /\ event' = Event("input", text)
        /\ UNCHANGED << stories, url, mounted, inflight, last, pre, pairStart,
                        cause, fetchCount, submitChanges, lastRequest,
                        prevSort, pending >>

\* the url handleSearchSubmit passes to setUrl
SubmitUrl == API_ENDPOINT \o searchTerm

\* handleSearchSubmit with a fetch effect that runs after every submit
SearchSubmitAlwaysFetch ==
    /\ mounted
    /\ searchTerm # ""
    /\ url' = SubmitUrl
    /\ submitChanges' = IF SubmitUrl # url THEN submitChanges + 1 ELSE submitChanges
    /\ fetchCount < MaxFetches
    /\ handleFetchStories(url')
    /\ event' = Event("submit", SubmitUrl)
    /\ UNCHANGED << searchTerm, localStorage, mounted >>

\* handleSearchSubmit (the button is disabled while the term is empty), then
\* the effect on handleFetchStories, which is a new callback only if url changed
SearchSubmit ==
    /\ mounted
    /\ searchTerm # ""
    /\ url' = SubmitUrl
    /\ submitChanges' = IF SubmitUrl # url THEN submitChanges + 1 ELSE submitChanges
    /\ IF url' # url
       THEN /\ fetchCount < MaxFetches
            /\ handleFetchStories(url')
       ELSE UNCHANGED << stories, inflight, last, pre, pairStart, cause,
                         fetchCount, lastRequest, prevSort, pending >>
    /\ event' = Event("submit", SubmitUrl)
    /\ UNCHANGED << searchTerm, localStorage, mounted >>

RemoveAt(seq, i) ==
    [j \in 1..(Len(seq) - 1) |-> IF j < i THEN seq[j] ELSE seq[j + 1]]

\* the requests outstanding, after a dispatch that may have changed data
Touch(requests) ==
    [j \in DOMAIN requests |-> [requests[j] EXCEPT !.touched = TRUE]]

\* a try branch that drops the hits of a request that is not the latest
FetchSucceedsLatestOnly ==
    \E i \in DOMAIN inflight, payload \in Hits :
        /\ IF pending[i].id = fetchCount
           THEN /\ dispatchStories(FetchSuccessAction(payload))
                /\ pending' = Touch(RemoveAt(pending, i))
           ELSE /\ UNCHANGED << stories, last, pre, pairStart, prevSort >>
                /\ pending' = RemoveAt(pending, i)
        /\ cause' = "none"
        /\ inflight' = RemoveAt(inflight, i)
        /\ event' = SettleEvent("success", inflight[i], pending[i])
        /\ UNCHANGED << searchTerm, url, localStorage, mounted,
                        fetchCount, submitChanges, lastRequest >>

\* handleFetchStories after the await, the request answered with hits
FetchSucceeds ==
    \E i \in DOMAIN inflight, payload \in Hits :
        /\ dispatchStories(FetchSuccessAction(payload))
        /\ cause' = "none"
        /\ inflight' = RemoveAt(inflight, i)
        /\ pending' = Touch(RemoveAt(pending, i))
        /\ event' = SettleEvent("success", inflight[i], pending[i])
        /\ UNCHANGED << searchTerm, url, localStorage, mounted,
                        fetchCount, submitChanges, lastRequest >>

\* a rejected request without the catch branch: nothing is dispatched
FetchFailsSilent ==
    \E i \in DOMAIN inflight, c \in FailureCauses :
        /\ cause' = c
        /\ inflight' = RemoveAt(inflight, i)
        /\ pending' = RemoveAt(pending, i)
        /\ event' = SettleEvent("failure", inflight[i], pending[i])
        /\ UNCHANGED << stories, last, pre, pairStart, prevSort, searchTerm, url,
                        localStorage, mounted, fetchCount, submitChanges,
                        lastRequest >>

\* a catch branch that issues the failed request again
FetchFailsRetry ==
    \E i \in DOMAIN inflight, c \in FailureCauses :
        /\ fetchCount < MaxFetches
        /\ dispatchStories(FetchFailureAction)
        /\ cause' = c
        /\ inflight' = Append(RemoveAt(inflight, i), inflight[i])
        /\ pending' = Append(RemoveAt(pending, i),
                             [id |-> fetchCount + 1, began |-> stories.data,
                              touched |-> FALSE])
        /\ fetchCount' = fetchCount + 1
        /\ lastRequest' = [url |-> inflight[i], term |-> lastRequest.term]
        /\ event' = SettleEvent("failure", inflight[i], pending[i])
        /\ UNCHANGED << searchTerm, url, localStorage, mounted, submitChanges >>

\* a catch branch that puts back the data held when the request began
FetchFailsRollback ==
    \E i \in DOMAIN inflight, c \in FailureCauses :
        /\ stories' = [ReduceFetchFailure(stories) EXCEPT !.data = pending[i].began]
        /\ last' = FetchFailureAction
        /\ pre' = stories
        /\ pairStart' = NoPair
        /\ prevSort' = ""
        /\ cause' = c
        /\ inflight' = RemoveAt(inflight, i)
        /\ pending' = RemoveAt(pending, i)
        /\ event' = SettleEvent("failure", inflight[i], pending[i])
        /\ UNCHANGED << searchTerm, url, localStorage, mounted,
                        fetchCount, submitChanges, lastRequest >>

\* handleFetchStories after the await, the catch branch
FetchFails ==
    \E i \in DOMAIN inflight, c \in FailureCauses :
        /\ dispatchStories(FetchFailureAction)
        /\ cause' = c
        /\ inflight' = RemoveAt(inflight, i)
        /\ pending' = RemoveAt(pending, i)
        /\ event' = SettleEvent("failure", inflight[i], pending[i])
        /\ UNCHANGED << searchTerm, url, localStorage, mounted,
                        fetchCount, submitChanges, lastRequest >>

\* handleRemoveStory that also fetches the url again
RemoveStoryRefetch ==
    \E i \in DOMAIN stories.data :
        /\ mounted
        /\ ~stories.isLoading
        /\ fetchCount < MaxFetches
        /\ dispatchStories(RemoveAction(stories.data[i]))
        /\ cause' = "none"
        /\ inflight' = Append(inflight, url)
        /\ pending' = Append(Touch(pending),
                             [id |-> fetchCount + 1, began |-> stories.data,
                              touched |-> TRUE])
        /\ fetchCount' = fetchCount + 1
        /\ event' = Event("remove", stories.data[i].objectID)
        /\ UNCHANGED << searchTerm, url, localStorage, mounted,
                        submitChanges, lastRequest >>

\* handleRemoveStory, from the Dismiss button of a rendered Item
RemoveStory ==
    \E i \in DOMAIN stories.data :
        /\ mounted
        /\ ~stories.isLoading
        /\ dispatchStories(RemoveAction(stories.data[i]))
        /\ cause' = "none"
        /\ pending' = Touch(pending)
        /\ event' = Event("remove", stories.data[i].objectID)
        /\ UNCHANGED appVars

\* the three CustomButtons App renders
CustomButtons ==
    { [textField |-> "author",   filterField |-> "author"],
      [textField |-> "topic",    filterField |-> "topic"],
      [textField |-> "comments", filterField |-> "num_comments"] }

\* onClickFilter(filterField, onSort): the field passed to onSort
onClickFilter(filterField) == filterField

\* a click on a CustomButton: onClickFilter -> handleSortStories
SortStories ==
    \E button \in CustomButtons :
        /\ mounted
        /\ dispatchStories(SortAction(onClickFilter(button.filterField)))
        /\ cause' = "none"
        /\ pending' = Touch(pending)
        /\ event' = Event("sort", button.textField)
        /\ UNCHANGED appVars

\* the page is loaded again: state is rebuilt from localStorage, pending
\* responses are lost
Reload ==
    /\ mounted
    /\ searchTerm' = getItemOr(localStorage, "search", "React")
    /\ url' = API_ENDPOINT \o getItemOr(localStorage, "search", "React")
    /\ stories' = InitialStories
    /\ mounted' = FALSE
    /\ inflight' = << >>
    /\ last' = [type |-> "NONE"]
    /\ pre' = InitialStories
    /\ pairStart' = NoPair
    /\ cause' = "none"
    /\ fetchCount' = 0
    /\ submitChanges' = 0
    /\ lastRequest' = NoRequest
    /\ prevSort' = ""
    /\ pending' = << >>
    /\ event' = Event("reload", "")
    /\ UNCHANGED localStorage

Next ==
    \/ Mount
    \/ SearchInput
    \/ SearchSubmit
    \/ FetchSucceeds
    \/ FetchFails
    \/ RemoveStory
    \/ SortStories
    \/ Reload

Spec == Init /\ [][Next]_vars

-----------------------------------------------------------------------------
(* Vocabulary of the properties *)

\* items are in non-decreasing order of field
IsAscending(items, field) ==
    \A i, j \in DOMAIN items :
        i < j => compareAscending(Iteratee(items[i], field),
                                  Iteratee(items[j], field)) <= 0

\* items are in non-increasing order of field
IsDescending(items, field) ==
    \A i, j \in DOMAIN items :
        i < j => compareAscending(Iteratee(items[i], field),
                                  Iteratee(items[j], field)) >= 0

\* the entries of items whose field equals that of story, in order
SameKey(items, story, field) ==
    SelectSeq(items, LAMBDA s : Iteratee(s, field) = Iteratee(story, field))

\* result is original in ascending order of field, ties in original order
IsStableSort(result, original, field) ==
    /\ Len(result) = Len(original)
    /\ IsAscending(result, field)
    /\ \A story \in StoryUniverse :
           SameKey(result, story, field) = SameKey(original, story, field)

\* the two sequences hold the same articles the same number of times
SameArticles(a, b) ==
    \A story \in StoryUniverse :
        Cardinality({i \in DOMAIN a : a[i] = story})
            = Cardinality({i \in DOMAIN b : b[i] = story})

\* no two entries of items have the same objectID
UniqueIds(items) ==
    \A i, j \in DOMAIN items : items[i].objectID = items[j].objectID => i = j

\* two entries of items differ in field
HasDistinctKeys(items, field) ==
    \E i, j \in DOMAIN items : Iteratee(items[i], field) # Iteratee(items[j], field)

-----------------------------------------------------------------------------
(* Properties of the reducer, checked under ReducerSpec *)

\* C1 as stated: a SORT dispatched while the flag is false leaves items in
\* ascending order of the field and sets the flag; dispatched while the flag
\* is true it leaves them in descending order and clears the flag.
C1_AscendingWhenNotReversed ==
    last.type = "SORT_STORIES" =>
        IF pre.reverse
        THEN IsDescending(stories.data, last.payload) /\ ~stories.reverse
        ELSE IsAscending(stories.data, last.payload) /\ stories.reverse

\* C1 amended: a SORT dispatched while the flag is false leaves items in
\* descending order of the field (the stable ascending sort, fully reversed)
\* and sets the flag; dispatched while the flag is true it leaves them in
\* stable ascending order and clears the flag.
C1_DescendingWhenNotReversed ==
    last.type = "SORT_STORIES" =>
        IF pre.reverse
        THEN /\ IsStableSort(stories.data, pre.data, last.payload)
             /\ ~stories.reverse
        ELSE /\ IsDescending(stories.data, last.payload)
             /\ IsStableSort(reverse(stories.data), pre.data, last.payload)
             /\ stories.reverse

\* a first SORT (flag false) that reordered articles with distinct keys
C1_Witness ==
    /\ last.type = "SORT_STORIES"
    /\ ~pre.reverse
    /\ HasDistinctKeys(pre.data, last.payload)
    /\ stories.data # pre.data
    /\ ~IsAscending(stories.data, last.payload)

\* C2 as stated: two consecutive SORTs by one field return items to the
\* order, and the flag to the value, they had before the pair.
C2_RoundTrip ==
    pairStart.valid =>
        /\ stories.data = pairStart.state.data
        /\ stories.reverse = pairStart.state.reverse

\* C2 amended: two consecutive SORTs by one field return the flag to the
\* value it had before the pair and keep the same articles, ordered by the
\* field: ascending if the flag was false before the pair, descending if it
\* was true.
C2_PairSortsAndRestoresFlag ==
    pairStart.valid =>
        /\ stories.reverse = pairStart.state.reverse
        /\ SameArticles(stories.data, pairStart.state.data)
        /\ IF pairStart.state.reverse
           THEN IsDescending(stories.data, last.payload)
           ELSE IsAscending(stories.data, last.payload)

\* a pair of SORTs that did not restore the order
C2_Witness ==
    /\ pairStart.valid
    /\ stories.data # pairStart.state.data
    /\ HasDistinctKeys(stories.data, last.payload)

\* C3: whatever the state before, STORIES_FETCH_INIT yields isLoading = true
\* and isError = false and leaves data and the reverse flag as they were.
C3_FetchInit ==
    last.type = "STORIES_FETCH_INIT" =>
        /\ stories.isLoading
        /\ ~stories.isError
        /\ stories.data = pre.data
        /\ stories.reverse = pre.reverse

\* a STORIES_FETCH_INIT dispatched in a failure state that holds sorted items
C3_Witness ==
    /\ last.type = "STORIES_FETCH_INIT"
    /\ pre.isError
    /\ ~pre.isLoading
    /\ pre.reverse
    /\ Len(pre.data) = 2

\* C5: STORIES_FETCH_SUCCESS yields isLoading = false, isError = false and
\* data equal to the payload, entry by entry; the reverse flag is unchanged.
C5_FetchSuccess ==
    last.type = "STORIES_FETCH_SUCCESS" =>
        /\ ~stories.isLoading
        /\ ~stories.isError
        /\ Len(stories.data) = Len(last.payload)
        /\ \A i \in DOMAIN stories.data : stories.data[i] = last.payload[i]
        /\ stories.reverse = pre.reverse

\* a payload that drops a held article and is not in ascending order of
\* points, delivered while the flag is set
C5_Witness ==
    /\ last.type = "STORIES_FETCH_SUCCESS"
    /\ pre.reverse
    /\ \E i \in DOMAIN pre.data :
           \A j \in DOMAIN last.payload : last.payload[j] # pre.data[i]
    /\ Len(last.payload) = 2
    /\ last.payload[1].points > last.payload[2].points
    /\ stories.data = last.payload

\* indices of the entries of items that REMOVE_STORY(story) keeps
Kept(items, story) ==
    {i \in DOMAIN items : items[i].objectID # story.objectID}

\* C6: REMOVE_STORY(a) leaves exactly the entries whose objectID differs from
\* a's, in their prior relative order, and nothing else changes: one entry
\* fewer when a's objectID occurred once, the same state when it did not occur.
C6_Remove ==
    last.type = "REMOVE_STORY" =>
        LET kept == Kept(pre.data, last.payload) IN
        /\ Len(stories.data) = Cardinality(kept)
        /\ \A i \in kept :
               stories.data[Cardinality({j \in kept : j <= i})] = pre.data[i]
        /\ \A i \in DOMAIN stories.data :
               stories.data[i].objectID # last.payload.objectID
        /\ Cardinality(DOMAIN pre.data \ kept) = 1
               => Len(stories.data) = Len(pre.data) - 1
        /\ kept = DOMAIN pre.data => stories = pre
        /\ stories.isLoading = pre.isLoading
        /\ stories.isError = pre.isError
        /\ stories.reverse = pre.reverse

\* a REMOVE_STORY of the first of two held articles
C6_Witness ==
    /\ last.type = "REMOVE_STORY"
    /\ Len(pre.data) = 2
    /\ pre.data[1].objectID = last.payload.objectID
    /\ pre.data[2].objectID # last.payload.objectID
    /\ stories.data = << pre.data[2] >>

-----------------------------------------------------------------------------
(* Properties of the App, checked under Spec *)

\* C4: whatever the state before and whatever made the request fail,
\* STORIES_FETCH_FAILURE yields isLoading = false and isError = true and
\* leaves data and the reverse flag as they were right before it.
C4_FetchFailure ==
    last.type = "STORIES_FETCH_FAILURE" =>
        /\ cause \in FailureCauses
        /\ stories = [data |-> pre.data, isLoading |-> FALSE,
                      isError |-> TRUE, reverse |-> pre.reverse]

\* a request answered with a bad status while two sorted articles are held
C4_Witness ==
    /\ last.type = "STORIES_FETCH_FAILURE"
    /\ cause = "status"
    /\ pre.isLoading
    /\ pre.reverse
    /\ Len(pre.data) = 2
    /\ stories.data = pre.data

\* C7: isLoading and isError are never both true.
C7_NotLoadingAndError ==
    ~(stories.isLoading /\ stories.isError)

\* one of two overlapping requests has failed, the other is outstanding
C7_Witness ==
    /\ stories.isError
    /\ last.type = "STORIES_FETCH_FAILURE"
    /\ pre.isLoading
    /\ inflight # << >>

\* C8: the requests issued are the one of the mount plus one per submit that
\* changed url; none before the mount.
C8_FetchPerUrlChange ==
    fetchCount = IF mounted THEN 1 + submitChanges ELSE 0

\* one submit changed url, and the term has been edited since without a fetch
C8_Witness ==
    /\ mounted
    /\ fetchCount = 2
    /\ submitChanges = 1
    /\ searchTerm \notin {"", lastRequest.term}

\* C9 as stated: data never holds two stories with one objectID.
C9_UniqueIdsAlways ==
    UniqueIds(stories.data)

\* C9 amended: data holds two stories with one objectID only if a delivered
\* payload did: STORIES_FETCH_SUCCESS with a payload free of repeated
\* objectIDs yields such data, and every other action keeps data free of
\* them.
C9_UniqueIdsPreserved ==
    /\ last.type = "NONE" => UniqueIds(stories.data)
    /\ last.type = "STORIES_FETCH_SUCCESS" /\ UniqueIds(last.payload)
           => UniqueIds(stories.data)
    /\ last.type \in {"STORIES_FETCH_INIT", "STORIES_FETCH_FAILURE",
                      "REMOVE_STORY", "SORT_STORIES"} /\ UniqueIds(pre.data)
           => UniqueIds(stories.data)

\* two articles with distinct objectIDs replaced two that shared one
C9_Witness ==
    /\ last.type = "STORIES_FETCH_SUCCESS"
    /\ ~UniqueIds(pre.data)
    /\ Len(stories.data) = 2
    /\ UniqueIds(stories.data)

\* C10: the latest request went to API_ENDPOINT followed by the search term
\* held when it was triggered, and that is the current url; every request
\* outstanding went to API_ENDPOINT followed by a term the user submitted.
C10_RequestScopedToTerm ==
    fetchCount > 0 =>
        /\ lastRequest.url = API_ENDPOINT \o lastRequest.term
        /\ lastRequest.url = url
        /\ lastRequest.term # ""
        /\ \A i \in DOMAIN inflight :
               \E t \in Terms \ {""} : inflight[i] = API_ENDPOINT \o t

\* a request for the term typed and submitted, the term edited again since
C10_Witness ==
    /\ fetchCount = 2
    /\ lastRequest.term = "Redux"
    /\ lastRequest.url = API_ENDPOINT \o "Redux"
    /\ searchTerm = "React"
    /\ Len(inflight) = 2

-----------------------------------------------------------------------------
(* Persistence of the search term *)

\* C11: when a page load starts, the search term is the text persisted under
\* "search", the empty text included; it is "React" only if nothing is
\* persisted.
C11_RestartRestoresTerm ==
    ~mounted =>
        searchTerm = IF "search" \in DOMAIN localStorage
                     THEN localStorage["search"]
                     ELSE "React"

-----------------------------------------------------------------------------
(* Presentation *)

\* a render in which the error message replaces the List
ViewErrorFirst(state) ==
    [error   |-> state.isError,
     loading |-> state.isLoading,
     list    |-> ~state.isError /\ ~state.isLoading,
     items   |-> IF ~state.isError /\ ~state.isLoading THEN state.data ELSE << >>]

\* what App renders below the sort buttons: the error paragraph, the loading
\* paragraph, the List and the items the List shows
View(state) ==
    [error   |-> state.isError,
     loading |-> state.isLoading,
     list    |-> ~state.isLoading,
     items   |-> IF state.isLoading THEN << >> ELSE state.data]

\* C12 as stated: while isError is true and isLoading is false the error
\* message is shown and the List is not.
C12_ErrorHidesList ==
    stories.isError /\ ~stories.isLoading =>
        View(stories).error /\ ~View(stories).list

\* C12 amended: while isError is true and isLoading is false the error
\* message is shown together with the List, which shows the items held.
C12_ErrorAboveList ==
    stories.isError /\ ~stories.isLoading =>
        /\ View(stories).error
        /\ ~View(stories).loading
        /\ View(stories).list
        /\ View(stories).items = stories.data

\* a failed request with two articles still held
C12_Witness ==
    /\ event.name = "failure"
    /\ stories.isError
    /\ ~stories.isLoading
    /\ Len(stories.data) = 2
    /\ View(stories).items = stories.data

-----------------------------------------------------------------------------
(* Retry after a failure *)

\* C13 as stated: a submit made while the last fetch has failed issues a
\* request for the current term, also when the term is the one of the
\* current url.
C13_SubmitAfterFailureFetches ==
    /\ event.name = "submit"
    /\ stories.isError \/ (last.type = "STORIES_FETCH_INIT" /\ pre.isError)
    => /\ last.type = "STORIES_FETCH_INIT"
       /\ stories.isLoading
       /\ lastRequest.url = API_ENDPOINT \o searchTerm
       /\ \E i \in DOMAIN pending : pending[i].id = fetchCount /\ ~pending[i].touched

\* C13 amended: a request is issued by the mount and by a submit that changes
\* url, and by no other step (none by a failure); the request of such a
\* submit goes to API_ENDPOINT followed by the current term.  A submit of the
\* term of the current url issues none, after a failure as at any other time.
C13_RequestOnlyOnUrlChange ==
    [][ /\ fetchCount' > fetchCount
            <=> \/ event'.name = "mount"
                \/ event'.name = "submit" /\ url' # url
        /\ fetchCount' > fetchCount /\ event'.name = "submit"
            => /\ fetchCount' = fetchCount + 1
               /\ inflight' = Append(inflight, API_ENDPOINT \o searchTerm)
      ]_vars

\* after a failed fetch the user submitted another term and it is being fetched
C13_Witness ==
    /\ event.name = "submit"
    /\ last.type = "STORIES_FETCH_INIT"
    /\ pre.isError
    /\ fetchCount = 2
    /\ inflight = << API_ENDPOINT \o searchTerm >>

-----------------------------------------------------------------------------
(* Sort controls *)

\* the Story property each control is said to sort by
MappedField ==
    ("author" :> "author") @@ ("topic" :> "title") @@ ("comments" :> "num_comments")

\* C14: a click on a sort control dispatches SORT_STORIES with the Story
\* property the control is mapped to (author, title for "topic", num_comments
\* for "comments"), so data ends up ordered by that property.
C14_ControlSortsMappedField ==
    event.name = "sort" =>
        /\ last.type = "SORT_STORIES"
        /\ last.payload = MappedField[event.arg]
        /\ IF pre.reverse
           THEN IsAscending(stories.data, MappedField[event.arg])
           ELSE IsDescending(stories.data, MappedField[event.arg])

-----------------------------------------------------------------------------
(* Overlapping requests *)

\* C15: hits that answer a request issued before the latest one are stored
\* like any others: data becomes those hits and isLoading false, whatever
\* the current url; nothing discards them.
C15_StaleResponseApplied ==
    event.name = "success" /\ event.id < fetchCount =>
        /\ last.type = "STORIES_FETCH_SUCCESS"
        /\ stories.data = last.payload
        /\ ~stories.isLoading
        /\ ~stories.isError

\* the first of two requests was answered after the second: its hits are
\* the data held, and the current url is that of the second
C15_Witness ==
    /\ event.name = "success"
    /\ event.id = 1
    /\ fetchCount = 2
    /\ inflight = << >>
    /\ event.arg # url
    /\ lastRequest.url = url
    /\ Len(stories.data) = 2
    /\ stories.data = last.payload
    /\ ~stories.isLoading

-----------------------------------------------------------------------------
(* Items across a failed fetch *)

\* C16 as stated: right after the STORIES_FETCH_FAILURE of a request, data
\* is the data held at the STORIES_FETCH_INIT of that request.
C16_FailureRestoresStartItems ==
    event.name = "failure" => stories.data = event.began

\* C16 amended: right after the STORIES_FETCH_FAILURE of a request, data is
\* the data held right before it; it is the data held at the
\* STORIES_FETCH_INIT of that request if no REMOVE_STORY, SORT_STORIES or
\* STORIES_FETCH_SUCCESS was dispatched in between.
C16_FailureKeepsCurrentItems ==
    event.name = "failure" =>
        /\ last.type = "STORIES_FETCH_FAILURE"
        /\ stories.data = pre.data
        /\ ~event.touched => stories.data = event.began

\* a request failed after the items held at its start had been changed
C16_Witness ==
    /\ event.name = "failure"
    /\ event.touched
    /\ stories.data # event.began
    /\ stories.data = pre.data
    /\ Len(stories.data) = 2

-----------------------------------------------------------------------------
(* The reverse flag, checked under ReducerSpec *)

\* C17: every SORT_STORIES inverts the reverse flag and orders data in the
\* direction the flag selects (ascending if it was true, descending if it was
\* false), whatever the field; no other action changes the flag.
C17_SharedFlag ==
    /\ last.type = "SORT_STORIES" =>
           /\ stories.reverse = ~pre.reverse
           /\ IF pre.reverse
              THEN IsAscending(stories.data, last.payload)
              ELSE IsDescending(stories.data, last.payload)
    /\ last.type \in {"STORIES_FETCH_INIT", "STORIES_FETCH_SUCCESS",
                      "STORIES_FETCH_FAILURE", "REMOVE_STORY"} =>
           stories.reverse = pre.reverse

\* the first SORT by a field, right after a SORT by another field, ordered
\* the articles ascending where the SORT before it ordered descending
C17_Witness ==
    /\ last.type = "SORT_STORIES"
    /\ prevSort \notin {"", last.payload}
    /\ pre.reverse
    /\ HasDistinctKeys(pre.data, prevSort)
    /\ IsDescending(pre.data, prevSort)
    /\ HasDistinctKeys(stories.data, last.payload)
    /\ IsAscending(stories.data, last.payload)
    /\ ~stories.reverse

-----------------------------------------------------------------------------
(* Sort and dismiss in the App, checked under Spec *)

\* C18: a dismiss or a sort issues no request and leaves isLoading, isError,
\* the search term, the persisted term and url as they were; a dismiss leaves
\* the reverse flag too.
C18_SortAndDismissFrame ==
    [][ event'.name \in {"remove", "sort"} =>
            /\ stories'.isLoading = stories.isLoading
            /\ stories'.isError = stories.isError
            /\ event'.name = "remove" => stories'.reverse = stories.reverse
            /\ UNCHANGED << searchTerm, localStorage, url, inflight,
                            fetchCount, lastRequest >>
      ]_vars

\* an article was dismissed while a request was outstanding
C18_Witness ==
    /\ event.name = "remove"
    /\ inflight # << >>
    /\ Len(pre.data) = 2
    /\ Len(stories.data) = 1
    /\ searchTerm = "Redux"

\* C19: while isLoading is true at least one request is outstanding.
C19_LoadingOnlyWhileOutstanding ==
    stories.isLoading => inflight # << >>

\* two requests overlap and neither has been answered
C19_Witness ==
    /\ stories.isLoading
    /\ Len(inflight) = 2
    /\ event.name = "submit"

-----------------------------------------------------------------------------
(* One session with a transport that answers or rejects every request *)

SessionNext ==
    \/ Mount
    \/ SearchInput
    \/ SearchSubmit
    \/ FetchSucceeds
    \/ FetchFails
    \/ RemoveStory
    \/ SortStories

LiveSpec ==
    /\ Init
    /\ [][SessionNext]_vars
    /\ WF_vars(FetchSucceeds \/ FetchFails)

\* request number n has been issued and not answered
Outstanding(n) == \E i \in DOMAIN pending : pending[i].id = n

\* request number n has been issued and answered
Settled(n) == n <= fetchCount /\ ~Outstanding(n)

\* C20: every request issued is eventually settled, by one dispatch of
\* STORIES_FETCH_SUCCESS or STORIES_FETCH_FAILURE for that request, and is
\* never settled again; once no request is outstanding isLoading is false and
\* stays false as long as no request is issued.
C20_EveryFetchSettlesOnce ==
    /\ \A n \in 1..MaxFetches : Outstanding(n) ~> Settled(n)
    /\ [][ \A n \in 1..MaxFetches :
               /\ Outstanding(n) /\ ~Outstanding(n)' =>
                      /\ event'.id = n
                      /\ event'.name = "success" => last'.type = "STORIES_FETCH_SUCCESS"
                      /\ event'.name = "failure" => last'.type = "STORIES_FETCH_FAILURE"
                      /\ event'.name \in {"success", "failure"}
                      /\ Len(pending') = Len(pending) - 1
               /\ Settled(n) => Settled(n)'
         ]_vars
    /\ [](mounted /\ inflight = << >> => ~stories.isLoading)
    /\ [][ inflight = << >> /\ ~stories.isLoading /\ fetchCount' = fetchCount
               => ~stories'.isLoading ]_vars

\* two overlapping requests have both been settled, the second one last
C20_Witness ==
    /\ fetchCount = 2
    /\ inflight = << >>
    /\ Settled(1)
    /\ Settled(2)
    /\ event.id = 2
    /\ event.name = "failure"
    /\ ~stories.isLoading

====
